---- MODULE Spec2Model ----
(***************************************************************************)
(* TextOnlyPDFReader (src/script.js): the navigation controller, the       *)
(* document loader and the page renderer as a state machine.               *)
(*                                                                         *)
(* One action is one event-loop task together with the microtasks it       *)
(* queues: a user event (file selection, button click, a call of           *)
(* navigateToPage) or the settling of one PDF.js promise followed by the   *)
(* continuation of the async function awaiting it, up to its next await    *)
(* on a promise that is still pending.                                     *)
(***************************************************************************)
EXTENDS Integers, Sequences, FiniteSets, TLC

\* loadPDF calls that may be suspended (reading or opening a file, or waiting
\* for their first render) at the same time.
MaxLoads == 2
\* Largest page count of a selectable PDF file.
MaxPages == 2
\* Longest text run (item.str) the text-content fetch delivers.
MaxRunLen == 3

\* JavaScript null (pdfDoc, pageNumPending) and the absent file of files[0].
null == -1

\* The files the user selects: a one-page PDF and a MaxPages-page PDF.  A file
\* is named by its page count, and the document handle getDocument resolves
\* to is named by its file.  Whether reading or opening a file fails is
\* decided when the promise settles.
Files == {1, MaxPages}
NoFile == null
\* Arguments navigateToPage is called with: 0 and MaxPages + 1 are out of
\* range for every document.
Targets == 0..(MaxPages + 1)

VARIABLES
    pdfDoc,          \* this.pdfDoc: null or the handle of an opened document
    pageNum,         \* this.pageNum
    pageRendering,   \* this.pageRendering
    pageNumPending,  \* this.pageNumPending: null or a page number
    cycles,          \* renderCurrentPage calls suspended on a PDF.js promise
    container,       \* children of #pdfContainer: the page wrappers shown
    ui,              \* #pageInfo text and the disabled flags of the buttons
    loads,           \* loadPDF calls suspended on a promise, oldest first
    alerts,          \* alert() dialogs raised by the last task
    reqs,            \* history: the targets queued since this render began
                     \* or the document changed: how many (2 for more) and
                     \* the last one
    lastOp,          \* history: what the last task was, where it left no
                     \* other trace in the state
    stored,          \* localStorage item 'darkMode': a string, or Absent
    bodyDark,        \* document.body.classList contains 'dark-mode'
    darkBtn,         \* #darkModeToggle textContent
    prefHist,        \* history: the stored item before each of the last two
                     \* toggleDarkMode calls
    run,             \* item.str of a text item of the page being laid out
    span             \* the text-item span made for it, once it is made

\* The preference store and the text-item layout: no method of the reader
\* that touches them reads or writes a field of the navigation state.
viewVars == <<stored, bodyDark, darkBtn, prefHist, run, span>>

vars == <<pdfDoc, pageNum, pageRendering, pageNumPending, cycles, container,
          ui, loads, alerts, reqs, lastOp, viewVars>>

NumPages(doc) == doc

\* The fields of the reader object the methods read and write.
this ==
    [pdfDoc |-> pdfDoc, pageNum |-> pageNum, pageRendering |-> pageRendering,
     pageNumPending |-> pageNumPending, cycles |-> cycles,
     container |-> container, ui |-> ui]

Set(t) ==
    /\ pdfDoc' = t.pdfDoc
    /\ pageNum' = t.pageNum
    /\ pageRendering' = t.pageRendering
    /\ pageNumPending' = t.pageNumPending
    /\ cycles' = t.cycles
    /\ container' = t.container
    /\ ui' = t.ui

RemoveAt(s, i) == SubSeq(s, 1, i - 1) \o SubSeq(s, i + 1, Len(s))

NoReqs == [n |-> 0, last |-> null]

\* The render cycles once loadPDF call i has left `loads': the calls after it
\* move up by one.
Unlink(cs, i) ==
    [j \in 1..Len(cs) |->
        [cs[j] EXCEPT !.by = IF @ = i THEN 0 ELSE IF @ > i THEN @ - 1 ELSE @]]

----------------------------------------------------------------------------
\* Mutant: the next button is disabled only past the last page.
updateUILateNext(t) ==
    [t EXCEPT !.ui =
        IF t.pdfDoc # null
        THEN [pageInfo |-> <<"Page", t.pageNum, "of", NumPages(t.pdfDoc)>>,
              prevDisabled |-> t.pageNum <= 1,
              nextDisabled |-> t.pageNum > NumPages(t.pdfDoc)]
        ELSE [pageInfo |-> <<"No PDF loaded">>,
              prevDisabled |-> TRUE,
              nextDisabled |-> TRUE]]

\* updateUI (lines 242-256)
updateUI(t) ==
    [t EXCEPT !.ui =
        IF t.pdfDoc # null
        THEN [pageInfo |-> <<"Page", t.pageNum, "of", NumPages(t.pdfDoc)>>,
              prevDisabled |-> t.pageNum <= 1,
              nextDisabled |-> t.pageNum >= NumPages(t.pdfDoc)]
        ELSE [pageInfo |-> <<"No PDF loaded">>,
              prevDisabled |-> TRUE,
              nextDisabled |-> TRUE]]

\* Mutant: the guard of renderCurrentPage without the pageRendering test.
renderGuardNoFlag(t) == t.pdfDoc = null

\* renderCurrentPage, line 111: TRUE when the call returns at once.
renderGuard(t) == t.pdfDoc = null \/ t.pageRendering

\* renderCurrentPage up to its first await (lines 111-116): the flag is set
\* and getPage(this.pageNum) is requested of the document held now.  `by' is
\* the loadPDF call awaiting the returned promise, 0 when it is dropped.
renderCurrentPage(t, by) ==
    IF renderGuard(t) THEN t
    ELSE [t EXCEPT
            !.pageRendering = TRUE,
            !.cycles = Append(@, [doc |-> t.pdfDoc, idx |-> t.pageNum,
                                  stage |-> "getPage", ind |-> 0, by |-> by,
                                  before |-> t.container])]

\* Mutant: the range test without its upper bound.
invalidTargetNoUpper(t, p) == p < 1

\* navigateToPage, line 225
invalidTarget(t, p) == p < 1 \/ p > NumPages(t.pdfDoc)

\* Mutant: a queued target is kept when the slot is already taken.
navigateToPageKeepFirst(t, p) ==
    IF t.pdfDoc = null THEN t
    ELSE IF invalidTarget(t, p) THEN t
    ELSE IF t.pageRendering
         THEN IF t.pageNumPending = null
              THEN [t EXCEPT !.pageNumPending = p] ELSE t
    ELSE updateUI(renderCurrentPage([t EXCEPT !.pageNum = p], 0))

\* Mutant: the page number is not stored before rendering.
navigateToPageNoAssign(t, p) ==
    IF t.pdfDoc = null THEN t
    ELSE IF invalidTarget(t, p) THEN t
    ELSE IF t.pageRendering THEN [t EXCEPT !.pageNumPending = p]
    ELSE updateUI(renderCurrentPage(t, 0))

\* Mutant: the pageRendering test of line 227 is left out.
navigateToPageNoQueue(t, p) ==
    IF t.pdfDoc = null THEN t
    ELSE IF invalidTarget(t, p) THEN t
    ELSE updateUI(renderCurrentPage([t EXCEPT !.pageNum = p], 0))

\* Mutant: a request made during a render also moves the page number.
navigateToPageEager(t, p) ==
    IF t.pdfDoc = null THEN t
    ELSE IF invalidTarget(t, p) THEN t
    ELSE IF t.pageRendering
         THEN [t EXCEPT !.pageNumPending = p, !.pageNum = p]
    ELSE updateUI(renderCurrentPage([t EXCEPT !.pageNum = p], 0))

\* navigateToPage (lines 221-235)
navigateToPage(t, p) ==
    IF t.pdfDoc = null THEN t
    ELSE IF invalidTarget(t, p) THEN t
    ELSE IF t.pageRendering THEN [t EXCEPT !.pageNumPending = p]
    ELSE updateUI(renderCurrentPage([t EXCEPT !.pageNum = p], 0))

\* Mutant: the slot is not emptied before its target is navigated to.
finallyKeepPending(t) ==
    LET t1 == [t EXCEPT !.pageRendering = FALSE]
    IN  IF t1.pageNumPending # null
        THEN navigateToPage(t1, t1.pageNumPending)
        ELSE t1

\* Mutant: the flag is not released.
finallyNoRelease(t) ==
    IF t.pageNumPending # null
    THEN navigateToPage([t EXCEPT !.pageNumPending = null], t.pageNumPending)
    ELSE t

\* Mutant: the queued target is rendered without going through the range
\* test of navigateToPage.
finallyNoRevalidate(t) ==
    LET t1 == [t EXCEPT !.pageRendering = FALSE]
    IN  IF t1.pageNumPending # null
        THEN updateUI(renderCurrentPage(
                 [t1 EXCEPT !.pageNumPending = null,
                            !.pageNum = t1.pageNumPending], 0))
        ELSE t1

\* renderCurrentPage, the finally block (lines 153-162)
finally(t) ==
    LET t1 == [t EXCEPT !.pageRendering = FALSE]
    IN  IF t1.pageNumPending # null
        THEN navigateToPage([t1 EXCEPT !.pageNumPending = null],
                            t1.pageNumPending)
        ELSE t1

\* Mutant: a failed load raises no alert.
alertOnErrorSilent(a) == a

\* loadPDF, the catch block (lines 95-98): one alert() per caught error.
alertOnError(a) == a + 1

----------------------------------------------------------------------------
\* The dark-mode preference (lines 258-282)

\* localStorage.getItem returns null for a key that was never set.
Absent == "null"
StoredValues == {Absent, "true", "false"}

\* The two glyphs of line 281.
Sun == "sun"
Moon == "moon"

\* The string setItem stores for a boolean (line 273)
String(b) == IF b THEN "true" ELSE "false"

\* initDarkMode, line 260: the saved preference as startup reads it.
savedDarkMode(item) == item = "true"

\* updateDarkModeButton (lines 278-282): the glyph for a body that has, or
\* has not, the class dark-mode.
updateDarkModeButton(isDarkMode) == IF isDarkMode THEN Sun ELSE Moon

\* initDarkMode (lines 258-266) on a body without the class: the class list
\* and the button after startup, for a stored item.
initDarkMode(item) ==
    [bodyDark |-> savedDarkMode(item),
     darkBtn  |-> updateDarkModeButton(savedDarkMode(item))]

\* Mutant: the preference is saved before the class is toggled.
toggleDarkModeSaveFirst(dark) ==
    [bodyDark |-> ~dark,
     stored   |-> String(dark),
     darkBtn  |-> updateDarkModeButton(~dark)]

\* toggleDarkMode (lines 268-276) on a body whose class membership is `dark'.
toggleDarkMode(dark) ==
    LET isDarkMode == ~dark
    IN  [bodyDark |-> isDarkMode,
         stored   |-> String(isDarkMode),
         darkBtn  |-> updateDarkModeButton(isDarkMode)]

----------------------------------------------------------------------------
\* The text-item mapping of renderTextContent (lines 174-182).  A string is
\* the sequence of its UTF-16 code units.

EnDash == 8211
EmDash == 8212
FigDash == 8210
\* The replacement strings of lines 177-179, as the file holds them.
EnDashSub == <<8218, 196, 236>>
EmDashSub == <<8218, 196, 238>>
FigDashSub == <<8218, 196, 235>>

\* The code units of a text run: a letter, the three dashes and the first
\* unit of the replacement strings.
Chars == {97, EnDash, EmDash, FigDash, 8218}

RECURSIVE replaceFirst(_, _, _)
\* Mutant: the pattern without its g flag replaces the first match only.
replaceFirst(s, c, sub) ==
    IF s = <<>> THEN <<>>
    ELSE IF Head(s) = c THEN sub \o Tail(s)
    ELSE <<Head(s)>> \o replaceFirst(Tail(s), c, sub)

RECURSIVE replace(_, _, _)
\* s.replace(/c/g, sub) for a one-character pattern and a replacement string
\* without $: every match, left to right.
replace(s, c, sub) ==
    IF s = <<>> THEN <<>>
    ELSE (IF Head(s) = c THEN sub ELSE <<Head(s)>>) \o replace(Tail(s), c, sub)

\* The body of the map callback (lines 175-181): three passes in this order.
processItem(str) ==
    LET s1 == replace(str, EnDash, EnDashSub)
        s2 == replace(s1, EmDash, EmDashSub)
        s3 == replace(s2, FigDash, FigDashSub)
    IN  s3

----------------------------------------------------------------------------
\* The reader after construction (lines 31-44), with `item' stored under
\* darkMode and `str' the text run a page will deliver.
Start(item, str) ==
    /\ stored = item
    /\ bodyDark = initDarkMode(item).bodyDark
    /\ darkBtn = initDarkMode(item).darkBtn
    /\ prefHist = <<>>
    /\ run = str
    /\ span = [made |-> FALSE, textContent |-> <<>>]

NavInit ==
    /\ pdfDoc = null
    /\ pageNum = 1
    /\ pageRendering = FALSE
    /\ pageNumPending = null
    /\ cycles = <<>>
    /\ container = <<>>
    /\ ui = [pageInfo |-> <<"No PDF loaded">>,
             prevDisabled |-> TRUE, nextDisabled |-> TRUE]
    /\ loads = <<>>
    /\ alerts = 0
    /\ reqs = NoReqs
    /\ lastOp = "other"

\* A first visit: nothing is stored, and pages are told apart by their
\* index only.
Init == NavInit /\ Start(Absent, <<>>)

thisVars == <<pdfDoc, pageNum, pageRendering, pageNumPending, cycles,
              container, ui>>

\* fileInput change -> loadPDF(files[0]) with no file chosen (line 76).
LoadNoFile ==
    /\ lastOp' = "other"
    /\ alerts' = 0
    /\ UNCHANGED <<thisVars, loads, reqs, viewVars>>

\* fileInput change -> loadPDF(file) up to await fileToArrayBuffer (line 79).
LoadPDF(f) ==
    /\ Len(loads) < MaxLoads
    /\ loads' = Append(loads, [stage |-> "reading", file |-> f])
    /\ lastOp' = "other"
    /\ alerts' = 0
    /\ UNCHANGED <<thisVars, reqs, viewVars>>

\* FileReader onload: getDocument is called and awaited (lines 80-89).
ReadResolve(l) ==
    /\ l \in 1..Len(loads)
    /\ loads[l].stage = "reading"
    /\ loads' = [loads EXCEPT ![l].stage = "opening"]
    /\ lastOp' = "other"
    /\ alerts' = 0
    /\ UNCHANGED <<thisVars, reqs, viewVars>>

\* loadPDF, the catch block (lines 95-98): the call ends.
LoadFailed(l, name) ==
    /\ loads' = RemoveAt(loads, l)
    /\ cycles' = Unlink(cycles, l)
    /\ alerts' = alertOnError(0)
    /\ lastOp' = name
    /\ UNCHANGED <<pdfDoc, pageNum, pageRendering, pageNumPending, container,
                   ui, reqs, viewVars>>

\* FileReader onerror
ReadReject(l) ==
    /\ l \in 1..Len(loads)
    /\ loads[l].stage = "reading"
    /\ LoadFailed(l, "readError")

\* loadingTask.promise rejects
OpenReject(l) ==
    /\ l \in 1..Len(loads)
    /\ loads[l].stage = "opening"
    /\ LoadFailed(l, "openError")

\* loadingTask.promise resolves (lines 89-93): the handle and page 1 are
\* stored and renderCurrentPage is called; when it returns at once the load
\* goes on to updateUI and ends, else it waits for that render cycle.
OpenResolve(l) ==
    /\ l \in 1..Len(loads)
    /\ loads[l].stage = "opening"
    /\ LET t1 == [this EXCEPT !.pdfDoc = loads[l].file, !.pageNum = 1]
       IN  IF renderGuard(t1)
           THEN /\ Set([updateUI(t1) EXCEPT !.cycles = Unlink(@, l)])
                /\ loads' = RemoveAt(loads, l)
           ELSE /\ Set(renderCurrentPage(t1, l))
                /\ loads' = [loads EXCEPT ![l].stage = "rendering"]
    /\ reqs' = NoReqs
    /\ alerts' = 0
    /\ lastOp' = "other"
    /\ UNCHANGED viewVars

\* A call navigateToPage(p) from outside a render cycle.
NavigateToPage(p) ==
    /\ Set(navigateToPage(this, p))
    /\ reqs' = IF pdfDoc # null /\ ~invalidTarget(this, p) /\ pageRendering
               THEN [n |-> IF reqs.n = 0 THEN 1 ELSE 2, last |-> p]
               ELSE reqs
    /\ lastOp' = IF pdfDoc = null \/ invalidTarget(this, p)
                 THEN "navRejected"
                 ELSE IF pageRendering THEN "other" ELSE "navStarted"
    /\ alerts' = 0
    /\ UNCHANGED <<loads, viewVars>>

\* prevPage click (lines 53-55); a disabled button fires no click.
PrevPageClick ==
    /\ ~ui.prevDisabled
    /\ NavigateToPage(pageNum - 1)

\* nextPage click (lines 57-59)
NextPageClick ==
    /\ ~ui.nextDisabled
    /\ NavigateToPage(pageNum + 1)

\* The end of render cycle i (lines 151-163): the finally block, then the
\* continuation of the loadPDF call awaiting this cycle (line 93), which ends.
Finish(t, i, name) ==
    LET c  == t.cycles[i]
        t1 == finally([t EXCEPT !.cycles = RemoveAt(@, i)])
    IN  /\ IF c.by # 0
           THEN /\ Set([updateUI(t1) EXCEPT !.cycles = Unlink(@, c.by)])
                /\ loads' = RemoveAt(loads, c.by)
           ELSE /\ Set(t1)
                /\ loads' = loads
        /\ reqs' = NoReqs
        /\ alerts' = 0
        /\ lastOp' = name
        /\ UNCHANGED viewVars

\* getPage resolves (lines 116-147, 168): the container is cleared, the
\* wrapper gets its indicator from this.pageNum, getTextContent is awaited.
GetPageResolve(i) ==
    /\ i \in 1..Len(cycles)
    /\ cycles[i].stage = "getPage"
    /\ cycles[i].idx \in 1..NumPages(cycles[i].doc)
    /\ cycles' = [cycles EXCEPT ![i].stage = "getText", ![i].ind = pageNum]
    /\ container' = <<>>
    /\ lastOp' = "other"
    /\ alerts' = 0
    /\ UNCHANGED <<pdfDoc, pageNum, pageRendering, pageNumPending, ui, loads,
                   reqs, viewVars>>

\* getPage rejects (lines 151-152)
GetPageReject(i) ==
    /\ i \in 1..Len(cycles)
    /\ cycles[i].stage = "getPage"
    /\ Finish(this, i, "renderError")

\* getTextContent resolves (lines 168-214, 149): the spans are laid out and
\* the wrapper is appended to the container.
GetTextContentResolve(i) ==
    /\ i \in 1..Len(cycles)
    /\ cycles[i].stage = "getText"
    /\ Finish([this EXCEPT !.container =
                   Append(@, [doc |-> cycles[i].doc, idx |-> cycles[i].idx,
                              ind |-> cycles[i].ind, text |-> TRUE])],
              i, "rendered")

\* getTextContent rejects (lines 216-218, 149): renderTextContent logs and
\* returns, and the wrapper is appended without text.
GetTextContentReject(i) ==
    /\ i \in 1..Len(cycles)
    /\ cycles[i].stage = "getText"
    /\ Finish([this EXCEPT !.container =
                   Append(@, [doc |-> cycles[i].doc, idx |-> cycles[i].idx,
                              ind |-> cycles[i].ind, text |-> FALSE])],
              i, "textError")

LoadIds == 1..MaxLoads
CycleIds == 1..(MaxLoads + 1)

Next ==
    \/ LoadNoFile
    \/ \E f \in Files : LoadPDF(f)
    \/ \E l \in LoadIds : ReadResolve(l)
    \/ \E l \in LoadIds : ReadReject(l)
    \/ \E l \in LoadIds : OpenResolve(l)
    \/ \E l \in LoadIds : OpenReject(l)
    \/ \E p \in Targets : NavigateToPage(p)
    \/ PrevPageClick
    \/ NextPageClick
    \/ \E i \in CycleIds : GetPageResolve(i)
    \/ \E i \in CycleIds : GetPageReject(i)
    \/ \E i \in CycleIds : GetTextContentResolve(i)
    \/ \E i \in CycleIds : GetTextContentReject(i)

Spec == Init /\ [][Next]_vars

----------------------------------------------------------------------------
\* The presentation layer on its own: the dark-mode toggle and the layout of
\* one text item, for every stored preference and every text run, with no
\* document loaded.

navState == <<thisVars, loads, alerts, reqs, lastOp>>

RECURSIVE RunsOfLen(_)
RunsOfLen(n) ==
    IF n = 0 THEN {<<>>}
    ELSE {<<c>> \o r : c \in Chars, r \in RunsOfLen(n - 1)}

Runs == UNION {RunsOfLen(n) : n \in 0..MaxRunLen}

ViewInit == NavInit /\ \E item \in StoredValues, str \in Runs : Start(item, str)

\* darkModeToggle click (lines 70-72)
ToggleDarkMode ==
    /\ bodyDark' = toggleDarkMode(bodyDark).bodyDark
    /\ stored' = toggleDarkMode(bodyDark).stored
    /\ darkBtn' = toggleDarkMode(bodyDark).darkBtn
    /\ prefHist' = IF Len(prefHist) < 2 THEN Append(prefHist, stored)
                   ELSE <<prefHist[2], stored>>
    /\ UNCHANGED <<run, span, navState>>

\* One text item is mapped and its span is made (lines 174-197).
RenderTextItem ==
    /\ ~span.made
    /\ span' = [made |-> TRUE, textContent |-> processItem(run)]
    /\ UNCHANGED <<stored, bodyDark, darkBtn, prefHist, run, navState>>

ViewNext == ToggleDarkMode \/ RenderTextItem

ViewSpec == ViewInit /\ [][ViewNext]_vars

----------------------------------------------------------------------------
\* A step in which a render cycle ends: its finally block runs.
ExitOps == {"rendered", "renderError", "textError"}
ExitStep == lastOp' \in ExitOps

\* The fields of the navigation state and the document handle.
navVars == <<pdfDoc, pageNum, pageRendering, pageNumPending>>

\* C1: at most one render cycle is in flight at any time, the flag is set
\* exactly while one is, and so a successor starts only after the cycle
\* before it has ended.
C1_OneRenderAtATime ==
    /\ Len(cycles) <= 1
    /\ pageRendering <=> Len(cycles) = 1

\* A render is in flight while a target is queued and a load has replaced
\* the document the render was started on.
C1_Witness ==
    /\ Len(cycles) = 1
    /\ pageNumPending # null
    /\ pdfDoc # cycles[1].doc

\* C2: between tasks the pending slot is set only while the flag is set, and
\* the end of a render empties the slot and navigates to its target once: no
\* more than one successor is started, and it is for that target.
C2_PendingOnlyWhileRendering ==
    /\ [](pageNumPending # null => pageRendering)
    /\ [][ExitStep /\ pageNumPending # null =>
            /\ pageNumPending' = null
            /\ Len(cycles') <= 1
            /\ cycles' # <<>> =>
                  /\ cycles'[1].idx = pageNumPending
                  /\ pageNum' = pageNumPending]_vars

\* A render has just ended and its successor, started from the slot, is in
\* flight with the slot empty.
C2_Witness ==
    /\ lastOp \in ExitOps
    /\ pageRendering
    /\ pageNumPending = null
    /\ Len(cycles) = 1
    /\ cycles[1].idx = pageNum

\* C3: when two or more valid targets were queued during one render, with
\* the document unchanged since, the end of that render starts exactly one
\* render, for the target queued last.
C3_LastRequestWins ==
    [][ExitStep /\ reqs.n = 2 =>
            /\ Len(cycles') = 1
            /\ cycles'[1].stage = "getPage"
            /\ cycles'[1].doc = pdfDoc
            /\ cycles'[1].idx = reqs.last
            /\ pageNum' = reqs.last
            /\ pageNumPending' = null]_vars

\* Two targets were queued during the render in flight, the first of them
\* another page than the second: the slot holds the second.
C3_Witness ==
    /\ reqs.n = 2
    /\ Len(cycles) = 1
    /\ cycles[1].stage = "getText"
    /\ pageNumPending = reqs.last
    /\ pageNumPending # pageNum

\* C4 as stated: in every reachable state, navigateToPage(P) with P a page
\* of the loaded document leaves pageNum = P.
C4_Original ==
    \A p \in Targets :
        (pdfDoc # null /\ p >= 1 /\ p <= NumPages(pdfDoc))
        => navigateToPage(this, p).pageNum = p

\* C4 amended: in every reachable state in which no render is in progress,
\* navigateToPage(P) with P a page of the loaded document leaves pageNum = P.
C4_NavigateWhenIdle ==
    \A p \in Targets :
        (pdfDoc # null /\ p >= 1 /\ p <= NumPages(pdfDoc) /\ ~pageRendering)
        => navigateToPage(this, p).pageNum = p

\* navigateToPage has just started a render of a page other than page 1.
C4_Witness ==
    /\ lastOp = "navStarted"
    /\ pageNum > 1
    /\ Len(cycles) = 1
    /\ cycles[1].idx = pageNum

\* C5: in every reachable state, navigateToPage with a target out of range,
\* or with no document loaded, returns with every field as it was (the page
\* number, the flag, the slot, the document handle, the render cycles in
\* flight, the container and the navigation UI), whether or not a render is
\* in progress.
C5_RejectedNavigation ==
    \A p \in Targets :
        (pdfDoc = null \/ p < 1 \/ p > NumPages(pdfDoc))
        => navigateToPage(this, p) = this

\* A request was rejected for its target, with a document loaded and a
\* render in progress.
C5_Witness ==
    /\ lastOp = "navRejected"
    /\ pdfDoc # null
    /\ pageRendering

\* C6: the steps of a loadPDF call before its document opens (the call
\* itself and the end of the file read) change neither the document handle,
\* the page number, the flag nor the slot and raise no alert, and the step
\* in which the open is rejected changes none of them either and raises
\* exactly one alert.
C6_RejectedLoad ==
    [][/\ lastOp' = "openError" => UNCHANGED navVars /\ alerts' = 1
       /\ (\/ Len(loads') > Len(loads)
           \/ /\ Len(loads') = Len(loads)
              /\ \E l \in 1..Len(loads) :
                    /\ loads[l].stage = "reading"
                    /\ loads'[l].stage = "opening")
            => UNCHANGED navVars /\ alerts' = 0]_vars

\* An open was rejected while a document was held and being rendered.
C6_Witness ==
    /\ lastOp = "openError"
    /\ alerts = 1
    /\ pdfDoc # null
    /\ pageRendering

\* C7 as stated: whenever a document open succeeds, the page number becomes
\* 1 and a render of page 1 of the new document is started.
C7_Original ==
    [][\A l \in LoadIds :
         OpenResolve(l) =>
            /\ pageNum' = 1
            /\ Len(cycles') = Len(cycles) + 1
            /\ cycles'[Len(cycles')].doc = pdfDoc'
            /\ cycles'[Len(cycles')].idx = 1]_vars

\* C8: the flag is set only while a cycle awaits a library call, and every
\* end of a cycle, after a rejected page fetch, a rejected text fetch or a
\* full render, leaves the flag released, unless the slot held a target and
\* the successor for it has taken the flag again.
C8_FlagReleased ==
    /\ [](pageRendering => cycles # <<>>)
    /\ [][ExitStep =>
            \/ ~pageRendering'
            \/ /\ pageNumPending # null
               /\ Len(cycles') = 1
               /\ cycles'[1].stage = "getPage"
               /\ cycles'[1].idx = pageNumPending]_vars

\* A render has failed and the controller is idle.
C8_Witness ==
    /\ lastOp \in {"renderError", "textError"}
    /\ ~pageRendering
    /\ cycles = <<>>

\* C9 as stated: the end of a render with a target in the slot empties the
\* slot and leaves the controller rendering that target.
C9_Original ==
    [][ExitStep /\ pageNumPending # null =>
            /\ pageNumPending' = null
            /\ pageRendering'
            /\ pageNum' = pageNumPending
            /\ Len(cycles') = 1
            /\ cycles'[1].idx = pageNumPending]_vars

\* C10 as stated: after a render that failed on a library call the container
\* holds what it held when that render began.
C10_Original ==
    [][lastOp' \in {"renderError", "textError"} /\ Len(cycles) >= 1 =>
            container' = cycles[1].before]_vars

\* A loadPDF call is waiting at line 92 for the render it started: updateUI
\* (line 93) has not yet run for the document it stored.
LoadAwaitsRender == \E l \in 1..Len(loads) : loads[l].stage = "rendering"

\* The navigation UI the claim describes for the current state, with
\* `none' the page-info text shown when no document is loaded.
ExpectedUI(none) ==
    IF pdfDoc = null
    THEN [pageInfo |-> <<none>>, prevDisabled |-> TRUE, nextDisabled |-> TRUE]
    ELSE [pageInfo |-> <<"Page", pageNum, "of", NumPages(pdfDoc)>>,
          prevDisabled |-> (pageNum <= 1),
          nextDisabled |-> (pageNum >= NumPages(pdfDoc))]

----------------------------------------------------------------------------
\* C12 as stated: after startup with the key absent, "true" or "false", two
\* toggleDarkMode calls bring the stored item back to what it was, and after
\* each toggle the glyph is the sun exactly when the body has the dark class
\* and the stored item names the body's class membership.
C12_Original ==
    /\ Len(prefHist) = 2 => stored = prefHist[1]
    /\ Len(prefHist) >= 1 =>
          /\ darkBtn = (IF bodyDark THEN Sun ELSE Moon)
          /\ stored = (IF bodyDark THEN "true" ELSE "false")

\* C12 amended: two toggleDarkMode calls bring the preference startup reads
\* from the store (item = "true") back to what it was, and the stored item
\* itself when the key was set; after each toggle the glyph is the sun
\* exactly when the body has the dark class and the stored item is the
\* string of the body's class membership.
C12_ToggleTwice ==
    /\ Len(prefHist) = 2 =>
          /\ (stored = "true") = (prefHist[1] = "true")
          /\ prefHist[1] # Absent => stored = prefHist[1]
    /\ Len(prefHist) >= 1 =>
          /\ darkBtn = (IF bodyDark THEN Sun ELSE Moon)
          /\ stored = (IF bodyDark THEN "true" ELSE "false")

\* Two toggles after a startup with nothing stored: the preference is off
\* again, held as the item "false", and the moon is shown.
C12_Witness ==
    /\ prefHist = <<Absent, "true">>
    /\ stored = "false"
    /\ ~bodyDark
    /\ darkBtn = Moon

----------------------------------------------------------------------------
IsDash(c) == c \in {EnDash, EmDash, FigDash}

\* The replacement string a dash stands for, and any other character itself.
Substitute(c) ==
    IF c = EnDash THEN EnDashSub
    ELSE IF c = EmDash THEN EmDashSub
    ELSE IF c = FigDash THEN FigDashSub
    ELSE <<c>>

RECURSIVE Substituted(_)
\* A run with each of its characters substituted, in order.
Substituted(s) ==
    IF s = <<>> THEN <<>> ELSE Substitute(Head(s)) \o Substituted(Tail(s))

\* C13: the text of the span made for a run is the run with every en dash,
\* em dash and figure dash replaced by its replacement string and every other
\* character kept in place; a run without a dash is shown unchanged.
C13_DashesReplaced ==
    span.made =>
        /\ span.textContent = Substituted(run)
        /\ (\A k \in 1..Len(run) : ~IsDash(run[k])) => span.textContent = run

\* A run with two en dashes around a letter has been laid out.
C13_Witness ==
    /\ span.made
    /\ run = <<EnDash, 97, EnDash>>
    /\ span.textContent = EnDashSub \o <<97>> \o EnDashSub

----------------------------------------------------------------------------
\* C14: in every reachable state in which a render is in progress,
\* navigateToPage with a page of the loaded document changes the pending slot
\* and nothing else: the page number, the flag, the document handle, the
\* render cycles in flight (none added, none altered), the container and the
\* navigation UI are as they were.
C14_QueuedOnly ==
    \A p \in Targets :
        (pdfDoc # null /\ p >= 1 /\ p <= NumPages(pdfDoc) /\ pageRendering)
        => navigateToPage(this, p) = [this EXCEPT !.pageNumPending = p]

\* A target other than the page being fetched was queued by the last task,
\* and the render it was queued behind is still waiting for its page.
C14_Witness ==
    /\ lastOp = "other"
    /\ reqs.n = 1
    /\ pageNumPending = reqs.last
    /\ pageNumPending # pageNum
    /\ Len(cycles) = 1
    /\ cycles[1].stage = "getPage"
    /\ cycles[1].idx = pageNum

----------------------------------------------------------------------------
\* The page shown when render cycle c began, when a completed render of the
\* document still held had put it there with its text.
ShownBefore(c) == c.before[Len(c.before)]

BeganOnGoodPage(c) ==
    /\ c.before # <<>>
    /\ ShownBefore(c).text
    /\ ShownBefore(c).doc = pdfDoc
    /\ c.doc = pdfDoc

\* C15 as stated: when a render cycle that began on a successfully rendered
\* page of the document still held ends on a rejected page fetch or text
\* fetch, with no target queued, the page number and the page-info text name
\* the page that was shown when the cycle began.
C15_Original ==
    [][/\ lastOp' \in {"renderError", "textError"}
       /\ Len(cycles) = 1
       /\ BeganOnGoodPage(cycles[1])
       /\ pageNumPending = null
       /\ pdfDoc' = pdfDoc
       => /\ pageNum' = ShownBefore(cycles[1]).idx
          /\ ui'.pageInfo = <<"Page", ShownBefore(cycles[1]).idx, "of",
                              NumPages(pdfDoc)>>]_vars

----------------------------------------------------------------------------
\* C16: in every reachable state with a document loaded the page number is a
\* page of the document held, and every page fetch awaited or answered asks
\* for a page of the document it was issued against.
C16_PageInRange ==
    /\ pdfDoc # null => (1 <= pageNum /\ pageNum <= NumPages(pdfDoc))
    /\ \A i \in 1..Len(cycles) :
          1 <= cycles[i].idx /\ cycles[i].idx <= NumPages(cycles[i].doc)

\* A load has replaced the document by one of fewer pages while a render is
\* in flight and the queued target is past the last page of the new one.
C16_Witness ==
    /\ pdfDoc # null
    /\ Len(cycles) = 1
    /\ pageNumPending # null
    /\ pageNumPending > NumPages(pdfDoc)
    /\ cycles[1].doc # pdfDoc

----------------------------------------------------------------------------
\* The wrapper the last task appended to the container.
Inserted == container'[Len(container')]

\* C17 as stated: whenever a render appends the wrapper of a page whose text
\* it laid out, the number in the wrapper's indicator is the index of the page
\* handle the text came from, and that handle is of the document held when
\* the render finishes.
C17_Original ==
    [][lastOp' = "rendered" =>
            /\ Inserted.ind = Inserted.idx
            /\ Inserted.doc = pdfDoc']_vars

----------------------------------------------------------------------------
\* C18 as stated: when the open of an earlier selected file resolves after
\* the open of the file selected last has resolved, both loads succeeding,
\* the handle held is that of the file selected last.
C18_Original ==
    [][\A l \in LoadIds :
          LET last == Len(loads)
          IN  (l < last /\ loads[last].stage = "rendering" /\ OpenResolve(l))
              => pdfDoc' = loads[last].file]_vars

----------------------------------------------------------------------------
\* C19: a click on the next button during a render of page p, with p not the
\* last page of the document held, leaves the page number at p and the slot
\* at p + 1, however many clicks came before it; and when that render ends
\* with the clicks' target p + 1 in the slot, the page number becomes p + 1
\* and the one render started is for page p + 1.
C19_NextClicksDuringRender ==
    /\ [][(/\ NextPageClick
           /\ pageRendering
           /\ pdfDoc # null
           /\ pageNum < NumPages(pdfDoc))
          => /\ pageNumPending' = pageNum + 1
             /\ pageNum' = pageNum
             /\ cycles' = cycles]_vars
    /\ [][(/\ ExitStep
           /\ reqs.n >= 1
           /\ reqs.last = pageNum + 1
           /\ pageNumPending = reqs.last)
          => /\ pageNum' = pageNum + 1
             /\ Len(cycles') = 1
             /\ cycles'[1].idx = pageNum + 1]_vars

\* The next button is enabled during a render of page 1 and has been used
\* twice since the render began: the slot holds page 2 and the page number
\* is still 1.
C19_Witness ==
    /\ reqs = [n |-> 2, last |-> 2]
    /\ pageNum = 1
    /\ pageNumPending = 2
    /\ ~ui.nextDisabled
    /\ Len(cycles) = 1
    /\ cycles[1].idx = 1
    /\ cycles[1].doc = pdfDoc

====
